---- MODULE Spec2Model ----
(***************************************************************************)
(* Model of the video-to-audio converter: VideoToAudioConverter            *)
(* (converter/core.py) and the path helpers of converter/utils.py.         *)
(*                                                                         *)
(* Strings are sequences of one-character strings, so that the path        *)
(* functions (dirname, join, stem, suffix, lower, sorted) are computed     *)
(* character by character as the Python library computes them.             *)
(***************************************************************************)
EXTENDS Integers, Sequences, FiniteSets, TLC

(***************************************************************************)
(* Bounds of the model.                                                    *)
(***************************************************************************)
\* the largest number of files the initial directory tree holds
MaxFiles == 3

(***************************************************************************)
(* Strings.                                                                *)
(***************************************************************************)
\* the characters the model's paths use, in code-point order
Ascii == << "-", ".", "/", "1", "2", "3", "4", "A", "I", "M", "P", "V",
            "a", "b", "c", "d", "f", "g", "i", "k", "l", "m", "n", "o",
            "p", "r", "s", "t", "v", "w", "x" >>

\* ord(c), up to an order-preserving renumbering
Ord(c) == CHOOSE i \in 1..Len(Ascii) : Ascii[i] = c

\* str.lower() on one character
LowerChar(c) ==
  CASE c = "A" -> "a"
    [] c = "I" -> "i"
    [] c = "M" -> "m"
    [] c = "P" -> "p"
    [] c = "V" -> "v"
    [] OTHER   -> c

\* str.lower()
Lower(s) == [i \in 1..Len(s) |-> LowerChar(s[i])]

\* s < t on Python strings: lexicographic by code point, a proper prefix first
RECURSIVE StrLess(_, _)
StrLess(s, t) ==
  IF t = <<>> THEN FALSE
  ELSE IF s = <<>> THEN TRUE
  ELSE IF s[1] # t[1] THEN Ord(s[1]) < Ord(t[1])
  ELSE StrLess(Tail(s), Tail(t))

\* sorted(S) for a set of distinct strings
RECURSIVE Sorted(_)
Sorted(S) ==
  IF S = {} THEN <<>>
  ELSE LET m == CHOOSE x \in S : \A y \in S \ {x} : StrLess(x, y)
       IN  <<m>> \o Sorted(S \ {m})

\* s.rfind(c) + 1: the last position of c in s, 0 when absent
RFind(s, c) ==
  LET I == {i \in 1..Len(s) : s[i] = c}
  IN  IF I = {} THEN 0 ELSE CHOOSE i \in I : \A j \in I : j <= i

\* s.startswith(p)
StartsWith(s, p) == Len(p) <= Len(s) /\ SubSeq(s, 1, Len(p)) = p

\* s.rstrip('/')
RECURSIVE RStripSlash(_)
RStripSlash(s) ==
  IF s # <<>> /\ s[Len(s)] = "/" THEN RStripSlash(SubSeq(s, 1, Len(s) - 1))
  ELSE s

\* s.lstrip('/')
RECURSIVE LStripSlash(_)
LStripSlash(s) ==
  IF s # <<>> /\ s[1] = "/" THEN LStripSlash(Tail(s)) ELSE s

(***************************************************************************)
(* posixpath and pathlib.                                                  *)
(***************************************************************************)
\* os.path.dirname(p)
dirname(p) ==
  LET head == SubSeq(p, 1, RFind(p, "/"))
  IN  IF RStripSlash(head) # <<>> THEN RStripSlash(head) ELSE head

\* os.path.basename(p)
basename(p) == SubSeq(p, RFind(p, "/") + 1, Len(p))

\* os.path.join(a, b)
join(a, b) ==
  IF b # <<>> /\ b[1] = "/" THEN b
  ELSE IF a = <<>> \/ a[Len(a)] = "/" THEN a \o b
  ELSE a \o <<"/">> \o b

\* os.path.relpath(path, start) for a path that os.walk(start) produced, i.e.
\* one that lies under start
relpath(path, start) ==
  IF StartsWith(path, RStripSlash(start) \o <<"/">>)
    THEN LStripSlash(SubSeq(path, Len(RStripSlash(start)) + 1, Len(path)))
    ELSE path

\* the components of a relative path as pathlib parses it: split on '/',
\* empty and '.' components dropped
RECURSIVE Parts(_)
Parts(p) ==
  IF p = <<>> THEN <<>>
  ELSE LET i    == CHOOSE k \in 1..(Len(p) + 1) :
                      /\ (k = Len(p) + 1 \/ p[k] = "/")
                      /\ \A j \in 1..(k - 1) : p[j] # "/"
           comp == SubSeq(p, 1, i - 1)
           rest == SubSeq(p, i + 1, Len(p))
       IN  IF comp = <<>> \/ comp = <<".">> THEN Parts(rest)
           ELSE <<comp>> \o Parts(rest)

\* Path(p).name
PathName(p) == IF Parts(p) = <<>> THEN <<>> ELSE Parts(p)[Len(Parts(p))]

\* Path(p).suffix: the last '.' of the name and what follows it, unless that
\* dot starts or ends the name
PathSuffix(p) ==
  LET name == PathName(p)
      i    == RFind(name, ".")
  IN  IF 1 < i /\ i < Len(name) THEN SubSeq(name, i, Len(name)) ELSE <<>>

\* Path(p).stem
PathStem(p) ==
  LET name == PathName(p)
      i    == RFind(name, ".")
  IN  IF 1 < i /\ i < Len(name) THEN SubSeq(name, 1, i - 1) ELSE name

RECURSIVE JoinParts(_)
JoinParts(ps) ==
  IF ps = <<>> THEN <<>>
  ELSE IF Len(ps) = 1 THEN ps[1]
  ELSE ps[1] \o <<"/">> \o JoinParts(Tail(ps))

\* str(Path(p).parent) of a relative path
PathParent(p) ==
  LET ps == Parts(p)
  IN  IF Len(ps) <= 1 THEN <<".">> ELSE JoinParts(SubSeq(ps, 1, Len(ps) - 1))

(***************************************************************************)
(* The file system and the media files: the state the program works on.    *)
(***************************************************************************)
VARIABLES
  disk,          \* the regular files: path -> size in bytes (0 = empty)
  dirs,          \* the directories that exist
  nomkdir,       \* directories whose creation fails (permission, I/O error)
  media,         \* how each source opened so far behaves (see Behaviours)
  clips,         \* every VideoFileClip constructed: [path, closes]
  current_clip,  \* VideoToAudioConverter.current_clip: 0 (None) or a clip
  th,            \* per thread: position and local variables of its call
  trace,         \* the calls made to the collaborators, in order
  gui            \* the attributes of VideoConverterGUI (see GuiIdle)

vars == <<disk, dirs, nomkdir, media, clips, current_clip, th, trace, gui>>

\* None, where a path is expected
NoPath == <<"None">>

R_DIR   == <<"r">>
O_DIR   == <<"o">>
X_DIR   == <<"x">>
S_DIR   == <<"r", "/", "s">>
F_A_MP4 == <<"r", "/", "a", ".", "m", "p", "4">>
F_A_AVI == <<"r", "/", "a", ".", "A", "V", "I">>
F_C_TXT == <<"r", "/", "c", ".", "t", "x", "t">>
F_D_MOV == <<"r", "/", "s", "/", "d", ".", "m", "o", "v">>
F_GONE  == <<"r", "/", "g", ".", "m", "p", "4">>
OUT_X   == <<"o", "/", "s", "/", "x", ".", "w", "a", "v">>

\* the files the initial directory tree is drawn from
Universe == {F_A_MP4, F_A_AVI, F_C_TXT, F_D_MOV}

\* the ways a source behaves when it is opened and transcoded:
\*   open     - VideoFileClip(path) returns (TRUE) or raises (FALSE)
\*   audio    - clip.audio is not None
\*   duration - clip.duration (0 stands for None as well)
\*   write    - write_audiofile: "ok" writes a non-empty file, "empty" a
\*              zero-byte file, "nothing" returns without writing, "raises"
Behaviours ==
  { [open |-> FALSE, audio |-> FALSE, duration |-> 0,  write |-> "raises"],
    [open |-> TRUE,  audio |-> FALSE, duration |-> 10, write |-> "raises"],
    [open |-> TRUE,  audio |-> TRUE,  duration |-> 10, write |-> "raises"],
    [open |-> TRUE,  audio |-> TRUE,  duration |-> 10, write |-> "empty"],
    [open |-> TRUE,  audio |-> TRUE,  duration |-> 0,  write |-> "nothing"],
    [open |-> TRUE,  audio |-> TRUE,  duration |-> 0,  write |-> "ok"],
    [open |-> TRUE,  audio |-> TRUE,  duration |-> 10, write |-> "ok"] }

\* the audio_params dictionaries the callers pass (None is the empty one)
ParamChoices ==
  { <<>>,
    [codec |-> "libmp3lame", channels |-> 1],
    [channels |-> 2, ffmpeg_params |-> <<"-vn">>, format |-> "mp3"],
    [codec |-> "aac", fps |-> 22050, bitrate |-> "192k"] }

\* the threads that call the converter: the program's main thread and the
\* conversion threads the GUI starts
Threads == {"main", "worker", "worker2"}

\* os.path.exists(p)
Exists(p) == p \in DOMAIN disk \/ p \in dirs

\* os.path.getsize(p) of an existing path
GetSize(p) == IF p \in DOMAIN disk THEN disk[p] ELSE 1

(***************************************************************************)
(* converter/utils.py                                                      *)
(***************************************************************************)
SUPPORTED_VIDEO_FORMATS ==
  { <<".", "m", "p", "4">>, <<".", "a", "v", "i">>, <<".", "m", "o", "v">>,
    <<".", "m", "k", "v">>, <<".", "f", "l", "v">>, <<".", "w", "m", "v">>,
    <<".", "m", "4", "v">>, <<".", "3", "g", "p">> }

\* validate_file_extension, had it compared the suffix as it is written
validate_file_extension_CaseSensitive(file_path) ==
  PathSuffix(file_path) \in SUPPORTED_VIDEO_FORMATS

validate_file_extension(file_path) ==
  Lower(PathSuffix(file_path)) \in SUPPORTED_VIDEO_FORMATS

\* the files os.walk(directory) visits
Walk(directory) ==
  {f \in DOMAIN disk : StartsWith(f, RStripSlash(directory) \o <<"/">>)}

get_video_files_from_directory(directory) ==
  IF ~Exists(directory) THEN <<>>
  ELSE Sorted({f \in Walk(directory) : validate_file_extension(f)})

\* os.makedirs(name, exist_ok=True) on the directories D: the result is
\* [ok, dirs]; the parents are made first, and making stops at the first
\* directory that cannot be made
RECURSIVE makedirs(_, _)
makedirs(name, D) ==
  LET head == dirname(name)
      made == IF head # <<>> /\ basename(name) # <<>>
                 /\ head \notin D /\ head \notin DOMAIN disk
                THEN makedirs(head, D)
                ELSE [ok |-> TRUE, dirs |-> D]
  IN  IF ~made.ok THEN made
      ELSE IF name \in made.dirs THEN made
      ELSE IF name \in nomkdir \/ name \in DOMAIN disk
        THEN [ok |-> FALSE, dirs |-> made.dirs]
      ELSE [ok |-> TRUE, dirs |-> made.dirs \cup {name}]

\* create_output_directory(output_path) on the directories D: [ok, dirs]
create_output_directory(output_path, D) ==
  LET output_dir == dirname(output_path)
  IN  IF output_dir # <<>> /\ output_dir \notin D /\ output_dir \notin DOMAIN disk
        THEN makedirs(output_dir, D)
        ELSE [ok |-> TRUE, dirs |-> D]

(***************************************************************************)
(* converter/core.py: VideoToAudioConverter                                *)
(***************************************************************************)
\* validate_input_file, had it not checked the extension
validate_input_file_ExistsOnly(input_path) == Exists(input_path)

validate_input_file(input_path) ==
  Exists(input_path) /\ validate_file_extension(input_path)

\* the default of generate_output_path's output_format parameter
DefaultFormat == <<"w", "a", "v">>

\* generate_output_path, had it kept the source's extension in the name
generate_output_path_KeepsSuffix(input_path, output_dir, output_format, D) ==
  LET output_filename == PathName(input_path) \o <<".">> \o output_format
  IN  IF output_dir # <<>>
        THEN [path |-> join(output_dir, output_filename),
              dirs |-> create_output_directory(join(output_dir, output_filename), D).dirs]
        ELSE [path |-> join(PathParent(input_path), output_filename),
              dirs |-> D]

\* generate_output_path(input_path, output_dir, output_format) on the
\* directories D: [path, dirs]; output_dir <<>> stands for None
generate_output_path(input_path, output_dir, output_format, D) ==
  LET output_filename == PathStem(input_path) \o <<".">> \o output_format
  IN  IF output_dir # <<>>
        THEN [path |-> join(output_dir, output_filename),
              dirs |-> create_output_directory(join(output_dir, output_filename), D).dirs]
        ELSE [path |-> join(PathParent(input_path), output_filename),
              dirs |-> D]

(***************************************************************************)
(* Threads and their local variables.                                      *)
(***************************************************************************)
\* the local variables of a thread that runs no call
IdleFrame ==
  [ pc                |-> "idle",
    mode              |-> "none",     \* "single" or "batch": the outermost call
    \* convert_batch
    input_dir         |-> <<>>,
    output_dir        |-> <<>>,       \* <<>> stands for None
    audio_params      |-> <<>>,       \* the caller's dictionary
    progress_callback |-> "None",     \* "None" or "sink": the caller's sink
    sink_raises       |-> FALSE,      \* the caller's sink may raise
    video_files       |-> <<>>,
    i                 |-> 0,
    success_count     |-> 0,
    total_count       |-> 0,
    batch_ret         |-> <<>>,       \* the pair convert_batch returned
    \* convert_single_file
    input_path        |-> NoPath,
    output_path       |-> NoPath,
    cb                |-> "None",     \* "None", "sink", "file_progress_callback"
    video_clip        |-> 0,
    default_params    |-> <<>>,
    ret               |-> FALSE,      \* what convert_single_file returned
    \* the GUI's conversion thread
    format_type       |-> <<>> ]      \* format_var.get()

\* the attributes of a VideoConverterGUI after construction, and the
\* conversion_finished callbacks its worker threads have handed to
\* root.after and the main loop has not run yet
GuiIdle ==
  [ is_converting             |-> FALSE,
    current_conversion_thread |-> "None",
    after                     |-> 0 ]

\* the directories that hold the files of a tree
DirsOf(files) ==
  {R_DIR} \cup {dirname(f) : f \in files}

Init ==
  /\ \E files \in SUBSET Universe :
       /\ Cardinality(files) <= MaxFiles
       /\ disk = [f \in files |-> 1]
       /\ dirs = DirsOf(files)
  /\ nomkdir \in {{}, {O_DIR}}
  /\ media = <<>>
  /\ clips = <<>>
  /\ current_clip = 0
  /\ th = [t \in Threads |-> IdleFrame]
  /\ trace = <<>>
  /\ gui = GuiIdle

\* whether this delivery to the caller's sink raises
RaiseChoices(f) == IF f.sink_raises THEN BOOLEAN ELSE {FALSE}

\* VideoFileClip.close() on clip c
CloseClip(c) == [clips EXCEPT ![c].closes = @ + 1]

\* convert_single_file returns val: back to the caller
Return(f, val) ==
  [f EXCEPT !.ret = val,
            !.pc  = IF f.mode = "single" THEN "done" ELSE "batch_after"]

RetEntry(t, f, val) ==
  [op |-> "csf_ret", by |-> t, input_path |-> f.input_path, ret |-> val]

(***************************************************************************)
(* convert_single_file                                                     *)
(***************************************************************************)
\* the paths a caller passes to convert_single_file
SingleInputs == Universe \cup {F_GONE, R_DIR}

\* a caller (the command line, the GUI) calls convert_single_file
CallSingle(t) ==
  /\ th[t].pc = "idle"
  /\ \E ip \in SingleInputs, op \in {NoPath, OUT_X}, ap \in ParamChoices,
        cb \in {"None", "sink"}, sr \in BOOLEAN :
       /\ sr => cb = "sink"
       /\ th' = [th EXCEPT ![t] =
                   [@ EXCEPT !.pc = "csf_validate", !.mode = "single",
                             !.input_path = ip, !.output_path = op,
                             !.audio_params = ap, !.cb = cb,
                             !.sink_raises = sr]]
       /\ trace' = Append(trace, [op |-> "csf_call", by |-> t, input_path |-> ip])
  /\ UNCHANGED <<gui, disk, dirs, nomkdir, media, clips, current_clip>>

\* lines 123-125: validate the input file
CsfValidate(t) ==
  LET f == th[t] IN
  /\ f.pc = "csf_validate"
  /\ IF validate_input_file(f.input_path)
       THEN /\ th' = [th EXCEPT ![t].pc = "csf_outpath"]
            /\ UNCHANGED trace
       ELSE /\ th' = [th EXCEPT ![t] = Return(f, FALSE)]
            /\ trace' = Append(trace, RetEntry(t, f, FALSE))
  /\ UNCHANGED <<gui, disk, dirs, nomkdir, media, clips, current_clip>>

\* lines 127-140: derive the output path, make its directory
CsfOutputPath(t) ==
  LET f   == th[t]
      gen == IF f.output_path = NoPath
               THEN generate_output_path(f.input_path, <<>>, DefaultFormat, dirs)
               ELSE [path |-> f.output_path, dirs |-> dirs]
      cod == create_output_directory(gen.path, gen.dirs)
  IN
  /\ f.pc = "csf_outpath"
  /\ dirs' = cod.dirs
  /\ IF cod.ok
       THEN /\ th' = [th EXCEPT ![t] =
                        [f EXCEPT !.pc = "csf_open", !.output_path = gen.path]]
            /\ UNCHANGED trace
       ELSE /\ th' = [th EXCEPT ![t] =
                        Return([f EXCEPT !.output_path = gen.path], FALSE)]
            /\ trace' = Append(trace, RetEntry(t, f, FALSE))
  /\ UNCHANGED <<gui, disk, nomkdir, media, clips, current_clip>>

\* lines 142-144: open the source; the file shows how it behaves
CsfOpen(t) ==
  LET f == th[t] IN
  /\ f.pc = "csf_open"
  /\ \E b \in (IF f.input_path \in DOMAIN media
                 THEN {media[f.input_path]} ELSE Behaviours) :
       /\ media' = (f.input_path :> b) @@ media
       /\ IF b.open
            THEN /\ clips' = Append(clips, [path |-> f.input_path, closes |-> 0])
                 /\ current_clip' = Len(clips) + 1
                 /\ th' = [th EXCEPT ![t] =
                             [f EXCEPT !.pc = "csf_audio",
                                       !.video_clip = Len(clips) + 1]]
                 /\ trace' = Append(trace, [op |-> "open", by |-> t,
                                            clip |-> Len(clips) + 1])
            ELSE /\ th' = [th EXCEPT ![t].pc = "csf_except"]
                 /\ UNCHANGED <<clips, current_clip, trace>>
  /\ UNCHANGED <<gui, disk, dirs, nomkdir>>

\* CsfCheckAudio, had it not looked for the audio track
CsfCheckAudio_NoCheck(t) ==
  /\ th[t].pc = "csf_audio"
  /\ th' = [th EXCEPT ![t].pc = "csf_params"]
  /\ UNCHANGED <<gui, disk, dirs, nomkdir, media, clips, current_clip, trace>>

\* CsfCheckAudio, had it returned for a missing audio track without closing
CsfCheckAudio_NoClose(t) ==
  LET f == th[t] IN
  /\ f.pc = "csf_audio"
  /\ IF ~media[f.input_path].audio
       THEN /\ current_clip' = 0
            /\ th' = [th EXCEPT ![t] = Return(f, FALSE)]
            /\ trace' = Append(trace, RetEntry(t, f, FALSE))
            /\ UNCHANGED clips
       ELSE /\ th' = [th EXCEPT ![t].pc = "csf_params"]
            /\ UNCHANGED <<clips, current_clip, trace>>
  /\ UNCHANGED <<gui, disk, dirs, nomkdir, media>>

\* lines 146-151: a source without an audio track is closed and given up
CsfCheckAudio(t) ==
  LET f == th[t] IN
  /\ f.pc = "csf_audio"
  /\ IF ~media[f.input_path].audio
       THEN /\ clips' = CloseClip(f.video_clip)
            /\ current_clip' = 0
            /\ th' = [th EXCEPT ![t] = Return(f, FALSE)]
            /\ trace' = trace \o << [op |-> "close", by |-> t, clip |-> f.video_clip],
                                    RetEntry(t, f, FALSE) >>
       ELSE /\ th' = [th EXCEPT ![t].pc = "csf_params"]
            /\ UNCHANGED <<clips, current_clip, trace>>
  /\ UNCHANGED <<gui, disk, dirs, nomkdir, media>>

\* the keyword arguments of write_audiofile that are passed on
supported_params ==
  {"codec", "fps", "bitrate", "nbytes", "buffersize", "ffmpeg_params",
   "write_logfile"}

\* the channel-remap instruction of a channel count
ChannelArgs(channels) ==
  IF channels = 1 THEN <<"-ac", "1">>
  ELSE IF channels = 2 THEN <<"-ac", "2">>
  ELSE <<>>

\* BuildParams, had the defaults overridden the caller's values
BuildParams_DefaultsWin(audio_params, has_callback) ==
  LET base     == [codec |-> "pcm_s16le", logger |-> "None"]
      filtered == [k \in DOMAIN audio_params \cap supported_params |-> audio_params[k]]
      merged   == base @@ filtered
      has_ch   == "channels" \in DOMAIN audio_params
      aliased  == "ffmpeg_params" \in DOMAIN merged
      with_ff  == IF aliased THEN merged ELSE ("ffmpeg_params" :> <<>>) @@ merged
      ext      == ChannelArgs(audio_params["channels"])
      params   == IF DOMAIN audio_params = {} THEN base
                  ELSE IF has_ch
                    THEN [with_ff EXCEPT !["ffmpeg_params"] = @ \o ext]
                  ELSE merged
      logger   == IF has_callback THEN "None" ELSE "bar"
  IN  [ default_params |-> [params EXCEPT !["logger"] = logger],
        audio_params   |-> IF has_ch /\ aliased
                             THEN [audio_params EXCEPT !["ffmpeg_params"] = @ \o ext]
                             ELSE audio_params ]

\* lines 153-185: the parameters handed to write_audiofile, and the caller's
\* dictionary afterwards: [default_params, audio_params].  A ffmpeg_params
\* list that came from the caller is the caller's list object, so extending
\* it extends the caller's list.
BuildParams(audio_params, has_callback) ==
  LET base     == [codec |-> "pcm_s16le", logger |-> "None"]
      filtered == [k \in DOMAIN audio_params \cap supported_params |-> audio_params[k]]
      merged   == filtered @@ base
      has_ch   == "channels" \in DOMAIN audio_params
      aliased  == "ffmpeg_params" \in DOMAIN merged
      with_ff  == IF aliased THEN merged ELSE ("ffmpeg_params" :> <<>>) @@ merged
      ext      == ChannelArgs(audio_params["channels"])
      params   == IF DOMAIN audio_params = {} THEN base
                  ELSE IF has_ch
                    THEN [with_ff EXCEPT !["ffmpeg_params"] = @ \o ext]
                  ELSE merged
      logger   == IF has_callback THEN "None" ELSE "bar"
  IN  [ default_params |-> [params EXCEPT !["logger"] = logger],
        audio_params   |-> IF has_ch /\ aliased
                             THEN [audio_params EXCEPT !["ffmpeg_params"] = @ \o ext]
                             ELSE audio_params ]

\* lines 153-185 without the call of the callback
CsfParams(t) ==
  LET f  == th[t]
      bp == BuildParams(f.audio_params, f.cb # "None")
  IN
  /\ f.pc = "csf_params"
  /\ th' = [th EXCEPT ![t] =
              [f EXCEPT !.default_params = bp.default_params,
                        !.audio_params   = bp.audio_params,
                        !.pc = IF f.cb # "None" THEN "csf_cb0" ELSE "csf_write"]]
  /\ UNCHANGED <<gui, disk, dirs, nomkdir, media, clips, current_clip, trace>>

\* the keyword arguments convert_batch's file_progress_callback adds
BatchKeywords == {"file_index", "total_files", "current_file", "phase"}

\* lines 272-280: convert_batch.file_progress_callback(**kwargs), called with
\* the locals of the batch in f.  Passing a keyword both by name and in
\* **kwargs is a TypeError.  Result: [raised, events], the events being what
\* the caller's sink received.
file_progress_callback(f, kwargs, sink_raised) ==
  IF f.progress_callback = "None"
    THEN [raised |-> FALSE, events |-> <<>>]
  ELSE IF DOMAIN kwargs \cap BatchKeywords # {}
    THEN [raised |-> TRUE, events |-> <<>>]
  ELSE [raised |-> sink_raised,
        events |-> << [op |-> "sink",
                       kw |-> [file_index   |-> f.i,
                               total_files  |-> f.total_count,
                               current_file |-> f.video_files[f.i],
                               phase        |-> "converting"] @@ kwargs] >>]

\* convert_single_file calls its progress_callback with kwargs
InvokeCallback(f, kwargs, sink_raised) ==
  IF f.cb = "sink"
    THEN [raised |-> sink_raised, events |-> << [op |-> "sink", kw |-> kwargs] >>]
    ELSE file_progress_callback(f, kwargs, sink_raised)

\* clip.duration if clip.duration else 0
DurationOf(f) == media[f.input_path].duration

\* convert_single_file calls its callback and goes on at pc next
CsfCallback(t, at, kwargs, next) ==
  LET f == th[t] IN
  /\ f.pc = at
  /\ \E r \in RaiseChoices(f) :
       LET res == InvokeCallback(f, kwargs, r) IN
       /\ trace' = trace \o << [op |-> "cb", by |-> t, kw |-> kwargs] >> \o res.events
       /\ th' = [th EXCEPT ![t].pc = IF res.raised THEN "csf_except" ELSE next]
  /\ UNCHANGED <<gui, disk, dirs, nomkdir, media, clips, current_clip>>

\* line 180: the 'converting' event before the transcoder
CsfCallbackConverting(t) ==
  /\ th[t].pc = "csf_cb0"
  /\ CsfCallback(t, "csf_cb0",
                 [phase |-> "converting", t |-> 0, duration |-> DurationOf(th[t])],
                 "csf_write")

\* what write_audiofile does for the frame f: what the source is like, and,
\* once another thread has closed the clip, either that (the audio was
\* buffered) or an exception (the reader is gone)
WriteOutcomes(f) ==
  IF clips[f.video_clip].closes > 0
    THEN {media[f.input_path].write, "raises"}
    ELSE {media[f.input_path].write}

\* line 188: video_clip.audio.write_audiofile(output_path, **default_params)
CsfWrite(t) ==
  LET f == th[t] IN
  /\ f.pc = "csf_write"
  /\ trace' = Append(trace, [op |-> "write", by |-> t, clip |-> f.video_clip,
                             output_path |-> f.output_path,
                             params |-> f.default_params])
  /\ \E w \in WriteOutcomes(f) :
       /\ disk' = CASE w = "ok"    -> (f.output_path :> 1) @@ disk
                    [] w = "empty" -> (f.output_path :> 0) @@ disk
                    [] OTHER       -> disk
       /\ th' = [th EXCEPT ![t].pc =
                   IF w = "raises" THEN "csf_except"
                   ELSE IF f.cb # "None" THEN "csf_cb1" ELSE "csf_close"]
  /\ UNCHANGED <<gui, dirs, nomkdir, media, clips, current_clip>>

\* the 'completed' event, had it reported the start time
CsfCallbackCompleted_AtZero(t) ==
  /\ th[t].pc = "csf_cb1"
  /\ CsfCallback(t, "csf_cb1",
                 [phase |-> "completed", t |-> 0, duration |-> DurationOf(th[t])],
                 "csf_close")

\* lines 190-193: the 'completed' event after the transcoder
CsfCallbackCompleted(t) ==
  /\ th[t].pc = "csf_cb1"
  /\ CsfCallback(t, "csf_cb1",
                 [phase |-> "completed", t |-> DurationOf(th[t]),
                  duration |-> DurationOf(th[t])],
                 "csf_close")

\* lines 195-197: close the clip
CsfClose(t) ==
  LET f == th[t] IN
  /\ f.pc = "csf_close"
  /\ clips' = CloseClip(f.video_clip)
  /\ current_clip' = 0
  /\ trace' = Append(trace, [op |-> "close", by |-> t, clip |-> f.video_clip])
  /\ th' = [th EXCEPT ![t].pc = "csf_verify"]
  /\ UNCHANGED <<gui, disk, dirs, nomkdir, media>>

\* the verification, had it not looked at the size
VerifyOutput_ExistsOnly(output_path) == Exists(output_path)

\* lines 199-205: the output file must exist and be non-empty
VerifyOutput(output_path) == Exists(output_path) /\ GetSize(output_path) > 0

\* CsfVerify, had it reported success without looking at the output file
CsfVerify_AlwaysTrue(t) ==
  LET f == th[t] IN
  /\ f.pc = "csf_verify"
  /\ th' = [th EXCEPT ![t] = Return(f, TRUE)]
  /\ trace' = Append(trace, RetEntry(t, f, TRUE))
  /\ UNCHANGED <<gui, disk, dirs, nomkdir, media, clips, current_clip>>

CsfVerify(t) ==
  LET f == th[t] IN
  /\ f.pc = "csf_verify"
  /\ th' = [th EXCEPT ![t] = Return(f, VerifyOutput(f.output_path))]
  /\ trace' = Append(trace, RetEntry(t, f, VerifyOutput(f.output_path)))
  /\ UNCHANGED <<gui, disk, dirs, nomkdir, media, clips, current_clip>>

\* the exception handler, had it not closed the clip
CsfExcept_NoClose(t) ==
  LET f == th[t] IN
  /\ f.pc = "csf_except"
  /\ trace' = Append(trace, RetEntry(t, f, FALSE))
  /\ th' = [th EXCEPT ![t] = Return(f, FALSE)]
  /\ UNCHANGED <<gui, disk, dirs, nomkdir, media, clips, current_clip>>

\* lines 207-215: the exception handler closes the converter's current clip
CsfExcept(t) ==
  LET f == th[t] IN
  /\ f.pc = "csf_except"
  /\ IF current_clip # 0
       THEN /\ clips' = CloseClip(current_clip)
            /\ current_clip' = 0
            /\ trace' = trace \o << [op |-> "close", by |-> t, clip |-> current_clip],
                                    RetEntry(t, f, FALSE) >>
       ELSE /\ UNCHANGED <<clips, current_clip>>
            /\ trace' = Append(trace, RetEntry(t, f, FALSE))
  /\ th' = [th EXCEPT ![t] = Return(f, FALSE)]
  /\ UNCHANGED <<gui, disk, dirs, nomkdir, media>>

(***************************************************************************)
(* convert_batch                                                           *)
(***************************************************************************)
\* a caller (the command line, the GUI) calls convert_batch
CallBatch(t) ==
  /\ th[t].pc = "idle"
  /\ \E id \in {R_DIR, X_DIR}, od \in {<<>>, O_DIR}, ap \in ParamChoices,
        pcb \in {"None", "sink"}, sr \in BOOLEAN :
       /\ sr => pcb = "sink"
       /\ th' = [th EXCEPT ![t] =
                   [@ EXCEPT !.pc = "batch_start", !.mode = "batch",
                             !.input_dir = id, !.output_dir = od,
                             !.audio_params = ap, !.progress_callback = pcb,
                             !.sink_raises = sr]]
  /\ UNCHANGED <<gui, disk, dirs, nomkdir, media, clips, current_clip, trace>>

\* BatchStart, had it reported the files it found of any kind as the total
BatchStart_CountsAnyFile(t) ==
  LET f           == th[t]
      video_files == get_video_files_from_directory(f.input_dir)
  IN
  /\ f.pc = "batch_start"
  /\ IF ~Exists(f.input_dir) \/ video_files = <<>>
       THEN th' = [th EXCEPT ![t] =
                     [f EXCEPT !.pc = "done",
                               !.batch_ret = <<0, Cardinality(Walk(f.input_dir))>>]]
       ELSE th' = [th EXCEPT ![t] =
                     [f EXCEPT !.pc = "batch_file",
                               !.video_files   = video_files,
                               !.success_count = 0,
                               !.total_count   = Len(video_files),
                               !.i             = 1]]
  /\ UNCHANGED <<gui, disk, dirs, nomkdir, media, clips, current_clip, trace>>

\* lines 232-246: discover the files
BatchStart(t) ==
  LET f           == th[t]
      video_files == get_video_files_from_directory(f.input_dir)
  IN
  /\ f.pc = "batch_start"
  /\ IF ~Exists(f.input_dir) \/ video_files = <<>>
       THEN th' = [th EXCEPT ![t] =
                     [f EXCEPT !.pc = "done", !.batch_ret = <<0, 0>>]]
       ELSE th' = [th EXCEPT ![t] =
                     [f EXCEPT !.pc = "batch_file",
                               !.video_files   = video_files,
                               !.success_count = 0,
                               !.total_count   = Len(video_files),
                               !.i             = 1]]
  /\ UNCHANGED <<gui, disk, dirs, nomkdir, media, clips, current_clip, trace>>

\* the event convert_batch itself hands to the caller's sink, if there is one
BatchEvent(f, kw) ==
  IF f.progress_callback = "None" THEN <<>> ELSE << [op |-> "sink", kw |-> kw] >>

\* BatchOutputPath, had it put every output directly into output_dir
BatchOutputPath_Flat(f, video_file, D) ==
  IF f.output_dir # <<>>
    THEN generate_output_path(video_file, f.output_dir, DefaultFormat, D)
    ELSE generate_output_path(video_file, <<>>, DefaultFormat, D)

\* lines 260-269: the output path of video_file, on the directories D
BatchOutputPath(f, video_file, D) ==
  IF f.output_dir # <<>>
    THEN LET rel_path == relpath(video_file, f.input_dir)
         IN  generate_output_path(rel_path,
                                  join(f.output_dir, dirname(rel_path)),
                                  DefaultFormat, D)
    ELSE generate_output_path(video_file, <<>>, DefaultFormat, D)

\* lines 248-282: the 'processing' event, the output path, and the call of
\* convert_single_file for file i
BatchFile(t) ==
  LET f          == th[t]
      video_file == f.video_files[f.i]
      ev         == BatchEvent(f, [file_index   |-> f.i,
                                   total_files  |-> f.total_count,
                                   current_file |-> video_file,
                                   phase        |-> "processing"])
      gen        == BatchOutputPath(f, video_file, dirs)
  IN
  /\ f.pc = "batch_file"
  /\ \E r \in (IF ev = <<>> THEN {FALSE} ELSE RaiseChoices(f)) :
       IF r
         THEN /\ th' = [th EXCEPT ![t].pc = "raised"]
              /\ trace' = trace \o ev
              /\ UNCHANGED dirs
         ELSE /\ dirs' = gen.dirs
              /\ th' = [th EXCEPT ![t] =
                          [f EXCEPT !.pc = "csf_validate",
                                    !.input_path  = video_file,
                                    !.output_path = gen.path,
                                    !.cb = "file_progress_callback",
                                    !.video_clip = 0,
                                    !.default_params = <<>>]]
              /\ trace' = trace \o ev \o
                            << [op |-> "csf_call", by |-> t, input_path |-> video_file] >>
  /\ UNCHANGED <<gui, disk, nomkdir, media, clips, current_clip>>

\* BatchAfter, had it reported 'completed' for successful files only
BatchAfter_CompletedOnSuccess(t) ==
  LET f  == th[t]
      sc == IF f.ret THEN f.success_count + 1 ELSE f.success_count
      ev == IF f.ret
              THEN BatchEvent(f, [file_index   |-> f.i,
                                  total_files  |-> f.total_count,
                                  current_file |-> f.video_files[f.i],
                                  phase        |-> "completed"])
              ELSE <<>>
  IN
  /\ f.pc = "batch_after"
  /\ trace' = trace \o ev
  /\ \E r \in (IF ev = <<>> THEN {FALSE} ELSE RaiseChoices(f)) :
       th' = [th EXCEPT ![t] =
                [f EXCEPT !.success_count = sc,
                          !.i  = IF r THEN f.i ELSE f.i + 1,
                          !.pc = IF r THEN "raised"
                                 ELSE IF f.i + 1 > f.total_count THEN "batch_finish"
                                 ELSE "batch_file"]]
  /\ UNCHANGED <<gui, disk, dirs, nomkdir, media, clips, current_clip>>

\* BatchAfter, had the loop stopped at the first file that failed
BatchAfter_StopOnFailure(t) ==
  LET f  == th[t]
      sc == IF f.ret THEN f.success_count + 1 ELSE f.success_count
      ev == BatchEvent(f, [file_index   |-> f.i,
                           total_files  |-> f.total_count,
                           current_file |-> f.video_files[f.i],
                           phase        |-> "completed"])
  IN
  /\ f.pc = "batch_after"
  /\ trace' = trace \o ev
  /\ \E r \in (IF ev = <<>> THEN {FALSE} ELSE RaiseChoices(f)) :
       th' = [th EXCEPT ![t] =
                [f EXCEPT !.success_count = sc,
                          !.i  = IF r THEN f.i ELSE f.i + 1,
                          !.pc = IF r THEN "raised"
                                 ELSE IF f.i + 1 > f.total_count \/ ~f.ret
                                   THEN "batch_finish"
                                 ELSE "batch_file"]]
  /\ UNCHANGED <<gui, disk, dirs, nomkdir, media, clips, current_clip>>

\* lines 282-292 and the loop's advance: count the success, the 'completed'
\* event, the next file
BatchAfter(t) ==
  LET f  == th[t]
      sc == IF f.ret THEN f.success_count + 1 ELSE f.success_count
      ev == BatchEvent(f, [file_index   |-> f.i,
                           total_files  |-> f.total_count,
                           current_file |-> f.video_files[f.i],
                           phase        |-> "completed"])
  IN
  /\ f.pc = "batch_after"
  /\ trace' = trace \o ev
  /\ \E r \in (IF ev = <<>> THEN {FALSE} ELSE RaiseChoices(f)) :
       th' = [th EXCEPT ![t] =
                [f EXCEPT !.success_count = sc,
                          !.i  = IF r THEN f.i ELSE f.i + 1,
                          !.pc = IF r THEN "raised"
                                 ELSE IF f.i + 1 > f.total_count THEN "batch_finish"
                                 ELSE "batch_file"]]
  /\ UNCHANGED <<gui, disk, dirs, nomkdir, media, clips, current_clip>>

\* lines 294-306: the 'finished' event and the returned pair
BatchFinish(t) ==
  LET f  == th[t]
      ev == BatchEvent(f, [file_index    |-> f.total_count,
                           total_files   |-> f.total_count,
                           current_file  |-> NoPath,
                           phase         |-> "finished",
                           success_count |-> f.success_count])
  IN
  /\ f.pc = "batch_finish"
  /\ trace' = trace \o ev
  /\ \E r \in (IF ev = <<>> THEN {FALSE} ELSE RaiseChoices(f)) :
       th' = [th EXCEPT ![t] =
                IF r THEN [f EXCEPT !.pc = "raised"]
                ELSE [f EXCEPT !.pc = "done",
                               !.batch_ret = <<f.success_count, f.total_count>>]]
  /\ UNCHANGED <<gui, disk, dirs, nomkdir, media, clips, current_clip>>

\* the environment: a discovered file is removed before its turn, so that
\* os.path.exists (line 43) no longer finds it
FileVanishes(t) ==
  LET f == th[t] IN
  /\ f.pc = "batch_file"
  /\ f.video_files[f.i] \in DOMAIN disk
  /\ disk' = [p \in DOMAIN disk \ {f.video_files[f.i]} |-> disk[p]]
  /\ UNCHANGED <<gui, dirs, nomkdir, media, clips, current_clip, th, trace>>

(***************************************************************************)
(* The sequential program: one thread calls the converter once.            *)
(***************************************************************************)
Main == "main"

Next ==
  \/ CallSingle(Main)
  \/ CsfValidate(Main)
  \/ CsfOutputPath(Main)
  \/ CsfOpen(Main)
  \/ CsfCheckAudio(Main)
  \/ CsfParams(Main)
  \/ CsfCallbackConverting(Main)
  \/ CsfWrite(Main)
  \/ CsfCallbackCompleted(Main)
  \/ CsfClose(Main)
  \/ CsfVerify(Main)
  \/ CsfExcept(Main)
  \/ CallBatch(Main)
  \/ BatchStart(Main)
  \/ BatchFile(Main)
  \/ BatchAfter(Main)
  \/ BatchFinish(Main)
  \/ FileVanishes(Main)

Spec == Init /\ [][Next]_vars

(***************************************************************************)
(* converter/gui.py: the main loop handles Start, Stop and the             *)
(* conversion_finished callbacks one at a time; every Start runs the       *)
(* conversion in a thread of its own, on the one converter of the window.  *)
(***************************************************************************)
Workers == Threads \ {Main}

\* the formats chosen in the window
GuiFormats == { <<"w", "a", "v">>, <<"m", "p", "3">> }

\* get_audio_params(): the codec of the format, the channel count; the
\* sample rate is left at 44100 and so not passed
get_audio_params(format_type, channels) ==
  [ codec    |-> CASE format_type = <<"w", "a", "v">>      -> "pcm_s16le"
                   [] format_type = <<"m", "p", "3">>      -> "libmp3lame"
                   [] format_type = <<"f", "l", "a", "c">> -> "flac"
                   [] format_type = <<"a", "a", "c">>      -> "aac",
    channels |-> channels ]

\* the sources in the tree of the window's user, all of them sound
GuiTree == {F_A_MP4, F_D_MOV}

Sound == [open |-> TRUE, audio |-> TRUE, duration |-> 10, write |-> "ok"]

InitGui ==
  /\ disk = [f \in GuiTree |-> 1]
  /\ dirs = DirsOf(GuiTree)
  /\ nomkdir = {}
  /\ media = [f \in GuiTree |-> Sound]
  /\ clips = <<>>
  /\ current_clip = 0
  /\ th = [t \in Threads |-> IdleFrame]
  /\ trace = <<>>
  /\ gui = GuiIdle

\* start_conversion: the Start button, with a file or a directory selected
start_conversion(t) ==
  /\ th[t].pc = "idle"
  /\ ~gui.is_converting
  /\ \E w \in Workers, input_file \in {NoPath, F_A_MP4},
        input_dir \in {R_DIR, S_DIR}, format_type \in GuiFormats :
       /\ input_file # NoPath => input_dir = R_DIR
       /\ th[w].pc = "idle"
       /\ w = "worker2" => th["worker"].pc # "idle"
       /\ gui' = [gui EXCEPT !.is_converting = TRUE,
                             !.current_conversion_thread = w]
       /\ th' = [th EXCEPT ![w] =
                   [@ EXCEPT !.pc = "thread_start",
                             !.mode = IF input_file # NoPath THEN "single"
                                      ELSE "batch",
                             !.input_path  = input_file,
                             !.input_dir   = input_dir,
                             !.format_type = format_type,
                             !.audio_params = get_audio_params(format_type, 2)]]
  /\ UNCHANGED <<disk, dirs, nomkdir, media, clips, current_clip, trace>>

\* convert_file_thread up to the call of convert_single_file, and
\* convert_directory_thread up to the call of convert_batch
ThreadStart(t) ==
  LET f   == th[t]
      gen == generate_output_path(f.input_path, <<>>, f.format_type, dirs)
  IN
  /\ f.pc = "thread_start"
  /\ IF f.mode = "single"
       THEN /\ dirs' = gen.dirs
            /\ th' = [th EXCEPT ![t] =
                        [f EXCEPT !.pc = "csf_validate",
                                  !.output_path = gen.path,
                                  !.cb = "sink"]]
            /\ trace' = Append(trace, [op |-> "csf_call", by |-> t,
                                       input_path |-> f.input_path])
       ELSE /\ th' = [th EXCEPT ![t] =
                        [f EXCEPT !.pc = "batch_start",
                                  !.output_dir = <<>>,
                                  !.progress_callback = "sink"]]
            /\ UNCHANGED <<dirs, trace>>
  /\ UNCHANGED <<gui, disk, nomkdir, media, clips, current_clip>>

\* the finally clause of the thread: root.after(0, self.conversion_finished)
ThreadFinally(t) ==
  /\ t \in Workers
  /\ th[t].pc \in {"done", "raised"}
  /\ th' = [th EXCEPT ![t].pc = "exited"]
  /\ gui' = [gui EXCEPT !.after = @ + 1]
  /\ UNCHANGED <<disk, dirs, nomkdir, media, clips, current_clip, trace>>

\* conversion_finished(), run by the main loop for a thread that ended
conversion_finished(t) ==
  /\ th[t].pc = "idle"
  /\ gui.after > 0
  /\ gui' = [gui EXCEPT !.after = @ - 1, !.is_converting = FALSE]
  /\ UNCHANGED <<disk, dirs, nomkdir, media, clips, current_clip, th, trace>>

\* the Stop button (enabled from start_conversion to conversion_finished):
\* VideoConverterGUI.stop_conversion calls the converter's stop_conversion,
\* which tests current_clip (core.py line 310)
GuiStopConversion(t) ==
  /\ th[t].pc = "idle"
  /\ gui.is_converting
  /\ th' = [th EXCEPT ![t].pc = IF current_clip # 0 THEN "stop_close"
                                ELSE "stop_finished"]
  /\ trace' = Append(trace, [op |-> "stop", by |-> t, clip |-> current_clip])
  /\ UNCHANGED <<gui, disk, dirs, nomkdir, media, clips, current_clip>>

\* core.py line 312: self.current_clip.close(); if a conversion thread has
\* set current_clip to None since the test, the AttributeError is caught and
\* logged (line 315)
StopClose(t) ==
  /\ th[t].pc = "stop_close"
  /\ IF current_clip # 0
       THEN /\ clips' = CloseClip(current_clip)
            /\ trace' = Append(trace, [op |-> "close", by |-> t,
                                       clip |-> current_clip])
            /\ th' = [th EXCEPT ![t].pc = "stop_clear"]
       ELSE /\ th' = [th EXCEPT ![t].pc = "stop_finished"]
            /\ UNCHANGED <<clips, trace>>
  /\ UNCHANGED <<gui, disk, dirs, nomkdir, media, current_clip>>

\* StopClear, had stop_conversion left current_clip as it was
StopClear_KeepsClip(t) ==
  /\ th[t].pc = "stop_clear"
  /\ th' = [th EXCEPT ![t].pc = "stop_finished"]
  /\ UNCHANGED <<gui, disk, dirs, nomkdir, media, clips, current_clip, trace>>

\* core.py line 313: self.current_clip = None
StopClear(t) ==
  /\ th[t].pc = "stop_clear"
  /\ current_clip' = 0
  /\ th' = [th EXCEPT ![t].pc = "stop_finished"]
  /\ UNCHANGED <<gui, disk, dirs, nomkdir, media, clips, trace>>

\* gui.py line 250: self.conversion_finished(interrupted=True)
GuiStopFinished(t) ==
  /\ th[t].pc = "stop_finished"
  /\ gui' = [gui EXCEPT !.is_converting = FALSE]
  /\ th' = [th EXCEPT ![t].pc = "idle"]
  /\ UNCHANGED <<disk, dirs, nomkdir, media, clips, current_clip, trace>>

\* the model follows the window until the collaborators have been called
\* MaxTrace times
MaxTrace == 12

Capped == Len(trace) < MaxTrace

NextGui ==
  \/ Capped /\ start_conversion(Main)
  \/ Capped /\ GuiStopConversion(Main)
  \/ Capped /\ StopClose(Main)
  \/ Capped /\ StopClear(Main)
  \/ Capped /\ GuiStopFinished(Main)
  \/ Capped /\ conversion_finished(Main)
  \/ \E w \in Workers : Capped /\ ThreadStart(w)
  \/ \E w \in Workers : Capped /\ CsfValidate(w)
  \/ \E w \in Workers : Capped /\ CsfOutputPath(w)
  \/ \E w \in Workers : Capped /\ CsfOpen(w)
  \/ \E w \in Workers : Capped /\ CsfCheckAudio(w)
  \/ \E w \in Workers : Capped /\ CsfParams(w)
  \/ \E w \in Workers : Capped /\ CsfCallbackConverting(w)
  \/ \E w \in Workers : Capped /\ CsfWrite(w)
  \/ \E w \in Workers : Capped /\ CsfCallbackCompleted(w)
  \/ \E w \in Workers : Capped /\ CsfClose(w)
  \/ \E w \in Workers : Capped /\ CsfVerify(w)
  \/ \E w \in Workers : Capped /\ CsfExcept(w)
  \/ \E w \in Workers : Capped /\ BatchStart(w)
  \/ \E w \in Workers : Capped /\ BatchFile(w)
  \/ \E w \in Workers : Capped /\ BatchAfter(w)
  \/ \E w \in Workers : Capped /\ BatchFinish(w)
  \/ \E w \in Workers : Capped /\ ThreadFinally(w)

SpecGui == InitGui /\ [][NextGui]_vars

(***************************************************************************)
(* File discovery on its own: get_video_files_from_directory is called     *)
(* twice on a tree that does not change in between.                        *)
(***************************************************************************)
F_B_MKV  == <<"r", "/", "b", ".", "m", "k", "v">>
F_F_FLV  == <<"r", "/", "s", "/", "f", ".", "f", "l", "v">>
F_W_WMV  == <<"r", "/", "w", ".", "w", "m", "v">>
F_M_M4V  == <<"r", "/", "M", ".", "m", "4", "v">>
F_G_3GP  == <<"r", "/", "s", "/", "t", "/", "g", ".", "3", "g", "p">>
F_HIDDEN == <<"r", "/", ".", "m", "p", "4">>
F_NODOT  == <<"r", "/", "m", "p", "4">>
F_RX_MP4 == <<"r", "x", "/", "a", ".", "m", "p", "4">>

\* the files the tree of a discovery is drawn from: every supported
\* extension, upper and lower case, nested directories, names without a
\* suffix, a file beside the root
DiscoverUniverse ==
  Universe \cup {F_B_MKV, F_F_FLV, F_W_WMV, F_M_M4V, F_G_3GP, F_HIDDEN,
                 F_NODOT, F_RX_MP4}

\* the directories a caller asks for: the root, a subdirectory, a directory
\* that does not exist, and a path that is a file
DiscoverDirs == {R_DIR, S_DIR, X_DIR, F_A_MP4}

\* the directories above the files of a tree
AncestorsOf(files) ==
  UNION { {SubSeq(f, 1, i - 1) : i \in {j \in 1..Len(f) : f[j] = "/"}} :
          f \in files }

InitDiscover ==
  /\ \E files \in SUBSET DiscoverUniverse :
       /\ Cardinality(files) <= MaxFiles
       /\ disk = [f \in files |-> 1]
       /\ dirs = AncestorsOf(files) \cup {R_DIR}
  /\ nomkdir = {}
  /\ media = <<>>
  /\ clips = <<>>
  /\ current_clip = 0
  /\ th = [t \in Threads |-> IdleFrame]
  /\ trace = <<>>
  /\ gui = GuiIdle

\* a caller calls get_video_files_from_directory(directory), the first and
\* the second time
Discover(t) ==
  LET f == th[t] IN
  /\ f.pc \in {"idle", "found"}
  /\ \E directory \in (IF f.pc = "idle" THEN DiscoverDirs ELSE {f.input_dir}) :
       LET video_files == get_video_files_from_directory(directory) IN
       /\ th' = [th EXCEPT ![t] =
                   [f EXCEPT !.pc = IF f.pc = "idle" THEN "found" ELSE "found_again",
                             !.input_dir   = directory,
                             !.video_files = video_files]]
       /\ trace' = Append(trace, [op |-> "discover", by |-> t,
                                  directory |-> directory,
                                  video_files |-> video_files])
  /\ UNCHANGED <<gui, disk, dirs, nomkdir, media, clips, current_clip>>

NextDiscover == Discover(Main)

SpecDiscover == InitDiscover /\ [][NextDiscover]_vars

(***************************************************************************)
(* Output path generation on its own: generate_output_path is called       *)
(* twice; the first call may have made the output directory.               *)
(***************************************************************************)
F_BARE  == <<"a", ".", "m", "p", "4">>
F_TWO   == <<"r", "/", "a", ".", "b", ".", "a", "v", "i">>
OS_DIR  == <<"o", "/", "s">>

\* the sources a caller passes: in a directory, in a subdirectory, in the
\* working directory, with two dots, with no suffix
PathSources == {F_A_MP4, F_D_MOV, F_BARE, F_TWO, F_HIDDEN, F_NODOT}

\* the output directories a caller passes (<<>> stands for None)
PathOutputDirs == {<<>>, O_DIR, OS_DIR}

\* the output formats of the command line and the GUI
OutputFormats ==
  { <<"w", "a", "v">>, <<"m", "p", "3">>, <<"f", "l", "a", "c">>,
    <<"a", "a", "c">> }

InitPath ==
  /\ disk = <<>>
  /\ dirs = {R_DIR}
  /\ nomkdir \in {{}, {O_DIR}}
  /\ media = <<>>
  /\ clips = <<>>
  /\ current_clip = 0
  /\ th = [t \in Threads |-> IdleFrame]
  /\ trace = <<>>
  /\ gui = GuiIdle

\* a caller calls generate_output_path(input_path, output_dir, output_format),
\* the first and the second time
GenerateOutputPath(t) ==
  LET f == th[t] IN
  /\ f.pc \in {"idle", "generated"}
  /\ \E input_path \in PathSources, output_dir \in PathOutputDirs,
        output_format \in OutputFormats :
       LET gen == generate_output_path(input_path, output_dir, output_format, dirs)
       IN
       /\ dirs' = gen.dirs
       /\ th' = [th EXCEPT ![t] =
                   [f EXCEPT !.pc = IF f.pc = "idle" THEN "generated"
                                    ELSE "generated_again",
                             !.input_path  = input_path,
                             !.output_dir  = output_dir,
                             !.output_path = gen.path]]
       /\ trace' = Append(trace, [op |-> "generate", by |-> t,
                                  input_path    |-> input_path,
                                  output_dir    |-> output_dir,
                                  output_format |-> output_format,
                                  path          |-> gen.path])
  /\ UNCHANGED <<gui, disk, nomkdir, media, clips, current_clip>>

NextPath == GenerateOutputPath(Main)

SpecPath == InitPath /\ [][NextPath]_vars

(***************************************************************************)
(* Properties.                                                             *)
(***************************************************************************)
\* the frame of the sequential program's thread
M == th[Main]

CsfPcs ==
  {"csf_validate", "csf_outpath", "csf_open", "csf_audio", "csf_params",
   "csf_cb0", "csf_write", "csf_cb1", "csf_close", "csf_verify", "csf_except"}

\* convert_single_file has returned and its caller has not moved on
JustReturned ==
  M.pc = "batch_after" \/ (M.pc = "done" /\ M.mode = "single")

\* the positions of the trace entries with an operation in ops
At(ops) == {k \in 1..Len(trace) : trace[k].op \in ops}

\* the last position before k with an operation in ops, 0 if none
Prev(k, ops) ==
  LET I == {j \in At(ops) : j < k}
  IN  IF I = {} THEN 0 ELSE CHOOSE j \in I : \A l \in I : l <= j

\* the first position after k with an operation in ops, 0 if none
Succ(k, ops) ==
  LET I == {j \in At(ops) : j > k}
  IN  IF I = {} THEN 0 ELSE CHOOSE j \in I : \A l \in I : j <= l

\* the behaviour of the source clip c was opened from
MediaOf(c) == media[clips[c].path]

\* C1: a handle that convert_single_file opened is never closed twice, and
\* once the call has returned, on whichever exit path, every handle opened so
\* far has been closed exactly once and current_clip is None.
C1_HandleClosedExactlyOnce ==
  /\ \A c \in 1..Len(clips) : clips[c].closes <= 1
  /\ M.pc \notin CsfPcs =>
       /\ current_clip = 0
       /\ \A c \in 1..Len(clips) : clips[c].closes = 1

\* a batch of three files has ended whose handles were released on three exit
\* paths: no audio track, the transcoder raising, and success
C1_Witness ==
  /\ M.pc = "done" /\ M.mode = "batch" /\ Len(clips) = 3
  /\ \E a, b, c \in 1..3 :
       /\ ~MediaOf(a).audio
       /\ MediaOf(b).audio /\ MediaOf(b).write = "raises"
       /\ MediaOf(c).write = "ok"
       /\ \E k \in At({"csf_ret"}) : trace[k].ret /\ trace[k].input_path = clips[c].path
  /\ \A c \in 1..3 : clips[c].closes = 1

\* the inputs of the convert_single_file calls made so far, in order
RECURSIVE CallsIn(_)
CallsIn(tr) ==
  IF tr = <<>> THEN <<>>
  ELSE IF tr[1].op = "csf_call" THEN <<tr[1].input_path>> \o CallsIn(Tail(tr))
  ELSE CallsIn(Tail(tr))

\* C2: convert_batch calls convert_single_file once per discovered file, in
\* discovery order, whatever the earlier files returned: the calls made so
\* far are a prefix of video_files, a batch that returns has made all of
\* them, and a batch ends by an exception only if the caller's sink raised.
C2_BatchNeverAborts ==
  M.mode = "batch" =>
    /\ Len(CallsIn(trace)) <= Len(M.video_files)
    /\ CallsIn(trace) = SubSeq(M.video_files, 1, Len(CallsIn(trace)))
    /\ M.pc = "done" => CallsIn(trace) = M.video_files
    /\ M.pc = "raised" => M.sink_raises

\* a batch of three files has returned in which the first file failed
\* validation and the second had no audio track
C2_Witness ==
  /\ M.pc = "done" /\ M.mode = "batch" /\ Len(M.video_files) = 3
  /\ M.video_files[1] \notin DOMAIN disk
  /\ M.video_files[2] \in DOMAIN media /\ ~media[M.video_files[2]].audio
  /\ CallsIn(trace) = M.video_files

\* the source v would convert: it opens, has an audio track, and the
\* transcoder writes a non-empty output for it
Convertible(v) ==
  v \in DOMAIN media /\ media[v].open /\ media[v].audio /\ media[v].write = "ok"

\* no two of the files share directory and stem (and so an output path)
DistinctOutputs(files) ==
  \A i, j \in 1..Len(files) :
    i # j => <<dirname(files[i]), PathStem(files[i])>>
               # <<dirname(files[j]), PathStem(files[j])>>

\* C3: convert_batch returns (success_count, total_count), total_count the
\* number of discovered files and success_count the number of them whose
\* transcode succeeds with a non-empty output, with or without a progress
\* callback (stated for a sink that does not raise and files with pairwise
\* distinct outputs).
C3_BatchReturnsCounts ==
  (M.mode = "batch" /\ M.pc = "done" /\ M.video_files # <<>>
     /\ ~M.sink_raises /\ DistinctOutputs(M.video_files)) =>
    M.batch_ret =
      << Cardinality({i \in 1..Len(M.video_files) : Convertible(M.video_files[i])}),
         Len(M.video_files) >>

\* C4: a source that opened without an audio track is closed at once and the
\* call returns False: the open is followed by the close and the return,
\* with no transcoder call and no progress event in between.
C4_NoAudioNeverTranscoded ==
  \A k \in At({"open"}) :
    ~MediaOf(trace[k].clip).audio =>
      /\ k + 1 <= Len(trace) =>
           /\ trace[k + 1].op = "close" /\ trace[k + 1].clip = trace[k].clip
           /\ k + 2 <= Len(trace)
           /\ trace[k + 2].op = "csf_ret" /\ ~trace[k + 2].ret
           /\ trace[k + 2].input_path = clips[trace[k].clip].path
      /\ \A j \in At({"write"}) : trace[j].clip # trace[k].clip
      /\ k = Len(trace) => M.pc = "csf_audio"

\* convert_single_file, called with a sink, has returned False for a source
\* without audio track: the handle is closed, nothing was transcoded, the
\* sink received nothing
C4_Witness ==
  /\ M.pc = "done" /\ M.mode = "single" /\ M.cb = "sink" /\ ~M.ret
  /\ Len(clips) = 1 /\ ~MediaOf(1).audio /\ clips[1].closes = 1
  /\ At({"write", "cb", "sink"}) = {}

\* the regular file p exists and is not empty
NonEmptyFile(p) == p \in DOMAIN disk /\ disk[p] > 0

\* the transcoder call of the convert_single_file call that returned last,
\* 0 if it made none
LastWrite ==
  LET k == Prev(Len(trace), {"write", "csf_call"})
  IN  IF k # 0 /\ trace[k].op = "write" THEN k ELSE 0

\* C5: when convert_single_file returns True, the transcoder was called and
\* returned, and the destination exists with a non-zero size; so a
\* transcoder that returns leaving the destination missing or empty gives
\* False.
C5_EmptyOutputIsFailure ==
  JustReturned =>
    /\ M.ret => /\ LastWrite # 0
                /\ MediaOf(trace[LastWrite].clip).write # "raises"
                /\ NonEmptyFile(M.output_path)
    /\ (LastWrite # 0 /\ ~NonEmptyFile(M.output_path)) => ~M.ret

\* the transcoder returned and left a zero-byte destination, and the call
\* has returned False
C5_Witness ==
  /\ JustReturned /\ ~M.ret /\ LastWrite # 0
  /\ MediaOf(trace[LastWrite].clip).write = "empty"
  /\ M.output_path \in DOMAIN disk /\ disk[M.output_path] = 0

\* the inputs of the model whose extension is not a supported one
UnsupportedInputs == {F_C_TXT, R_DIR}

\* C6: for a source that does not exist or whose extension is unsupported,
\* convert_single_file returns False at once: the return follows the call
\* with nothing in between (no handle, no transcoder call, no event), and a
\* direct call leaves the directories as they were.  A source with an
\* upper-case supported extension is not rejected.
C6_InvalidSourceRejected ==
  /\ (JustReturned /\ (~Exists(M.input_path) \/ M.input_path \in UnsupportedInputs)) =>
       /\ ~M.ret
       /\ trace[Len(trace)].op = "csf_ret" /\ trace[Len(trace) - 1].op = "csf_call"
       /\ M.input_path \notin DOMAIN media
       /\ M.mode = "single" => (dirs = DirsOf(DOMAIN disk) /\ clips = <<>>)
  /\ (JustReturned /\ M.input_path = F_A_AVI /\ F_A_AVI \in DOMAIN disk
        /\ nomkdir = {}) => F_A_AVI \in DOMAIN media

\* a direct call with an output path in a directory that does not exist yet
\* has returned for a source with an unsupported extension
C6_Witness ==
  /\ M.pc = "done" /\ M.mode = "single" /\ M.input_path = F_C_TXT
  /\ F_C_TXT \in DOMAIN disk /\ M.output_path = OUT_X /\ ~M.ret
  /\ O_DIR \notin dirs /\ nomkdir = {}

\* C7: when opening the source raised, or the transcoder call raised,
\* convert_single_file has returned False with no handle left open; and
\* convert_batch ends by an exception only out of the caller's sink, never
\* out of convert_single_file.
C7_FailuresAreCaught ==
  /\ (JustReturned /\ M.input_path \in DOMAIN media
        /\ (~media[M.input_path].open
              \/ (LastWrite # 0 /\ media[M.input_path].write = "raises"))) =>
       /\ ~M.ret
       /\ trace[Len(trace)].op = "csf_ret"
       /\ current_clip = 0
       /\ \A c \in 1..Len(clips) : clips[c].closes >= 1
  /\ M.pc = "raised" =>
       /\ trace[Len(trace)].op = "sink"
       /\ trace[Len(trace)].kw.phase \in {"processing", "completed", "finished"}

\* the transcoder raised for the second file of a batch whose first file
\* could not be opened; both calls have returned False
C7_Witness ==
  /\ M.pc = "batch_after" /\ M.i = 2 /\ ~M.ret
  /\ M.video_files[1] \in DOMAIN media /\ ~media[M.video_files[1]].open
  /\ LastWrite # 0 /\ media[M.input_path].write = "raises"
  /\ Len(clips) = 1 /\ clips[1].closes = 1

\* the calls that order a conversion: its start, its events, the transcoder
CsfOps == {"csf_call", "cb", "write", "csf_ret"}

\* C8: convert_single_file with a callback calls it with 'converting', t = 0
\* and the source's duration right before the transcoder, and with
\* 'completed', t = duration right after a transcoder call that returned;
\* it makes no other call of the callback, and a sink passed directly
\* receives exactly these events.
C8_ConvertingThenCompleted ==
  /\ \A k \in At({"write"}) :
       M.cb # "None" =>
         /\ trace[Prev(k, CsfOps)].op = "cb"
         /\ trace[Prev(k, CsfOps)].kw =
              [phase |-> "converting", t |-> 0,
               duration |-> MediaOf(trace[k].clip).duration]
         /\ IF Succ(k, CsfOps) = 0
              THEN M.pc \in {"csf_cb1", "csf_except"}
              ELSE MediaOf(trace[k].clip).write # "raises" =>
                     /\ trace[Succ(k, CsfOps)].op = "cb"
                     /\ trace[Succ(k, CsfOps)].kw.phase = "completed"
  /\ \A k \in At({"cb"}) :
       /\ trace[k].kw.phase \in {"converting", "completed"}
       /\ trace[k].kw.phase = "converting" => trace[Prev(k, CsfOps)].op = "csf_call"
       /\ trace[k].kw.phase = "completed" =>
            LET w == Prev(k, CsfOps) IN
            /\ trace[w].op = "write"
            /\ MediaOf(trace[w].clip).write # "raises"
            /\ trace[k].kw.t = MediaOf(trace[w].clip).duration
            /\ trace[k].kw.duration = MediaOf(trace[w].clip).duration
       /\ M.cb = "sink" =>
            /\ k + 1 <= Len(trace)
            /\ trace[k + 1] = [op |-> "sink", kw |-> trace[k].kw]
  /\ M.cb = "sink" => \A k \in At({"sink"}) : k > 1 /\ trace[k - 1].op = "cb"

\* a 10-second source with audio was converted with a sink: call, open,
\* 'converting' at 0, transcoder, 'completed' at 10, close, return True
C8_Witness ==
  /\ M.pc = "done" /\ M.mode = "single" /\ M.cb = "sink" /\ M.ret
  /\ Len(trace) = 9
  /\ [k \in 1..9 |-> trace[k].op] =
       <<"csf_call", "open", "cb", "sink", "write", "cb", "sink", "close", "csf_ret">>
  /\ trace[4].kw = [phase |-> "converting", t |-> 0, duration |-> 10]
  /\ trace[7].kw = [phase |-> "completed", t |-> 10, duration |-> 10]

\* what orders a batch: the events convert_batch hands to the sink, and the
\* calls and returns of convert_single_file
IsBatchEntry(e) ==
  \/ e.op \in {"csf_call", "csf_ret"}
  \/ e.op = "sink" /\ e.kw.phase # "converting"

BatchView == SelectSeq(trace, IsBatchEntry)

\* the number of convert_single_file calls that returned True
Successes == Cardinality({k \in At({"csf_ret"}) : trace[k].ret})

\* the k-th entry of the batch view is the one a batch over files has there
BatchEntryOk(k, e, files) ==
  LET n == Len(files)
      i == ((k - 1) \div 4) + 1
      j == (k - 1) % 4
  IN  IF k = 4 * n + 1
        THEN e = [op |-> "sink",
                  kw |-> [file_index |-> n, total_files |-> n,
                          current_file |-> NoPath, phase |-> "finished",
                          success_count |-> Successes]]
      ELSE IF k > 4 * n + 1 THEN FALSE
      ELSE CASE j = 0 -> e = [op |-> "sink",
                              kw |-> [file_index |-> i, total_files |-> n,
                                      current_file |-> files[i],
                                      phase |-> "processing"]]
             [] j = 1 -> e.op = "csf_call" /\ e.input_path = files[i]
             [] j = 2 -> e.op = "csf_ret" /\ e.input_path = files[i]
             [] j = 3 -> e = [op |-> "sink",
                              kw |-> [file_index |-> i, total_files |-> n,
                                      current_file |-> files[i],
                                      phase |-> "completed"]]

\* C9: with a sink, convert_batch over n files delivers for i = 1..n the
\* 'processing' event (i, n, file i), then converts file i, then delivers the
\* 'completed' event of file i whatever the conversion returned, and after
\* file n one 'finished' event with the success count and n, the last event.
C9_BatchEventOrder ==
  (M.mode = "batch" /\ M.progress_callback = "sink") =>
    /\ \A k \in 1..Len(BatchView) : BatchEntryOk(k, BatchView[k], M.video_files)
    /\ (M.pc = "done" /\ M.video_files # <<>>) =>
         /\ Len(BatchView) = 4 * Len(M.video_files) + 1
         /\ trace[Len(trace)] = BatchView[Len(BatchView)]

\* a batch of three files with a sink has returned; the second file had been
\* removed and the third had no audio track
C9_Witness ==
  /\ M.mode = "batch" /\ M.progress_callback = "sink" /\ M.pc = "done"
  /\ Len(M.video_files) = 3 /\ Len(BatchView) = 13
  /\ M.video_files[2] \notin DOMAIN disk
  /\ M.video_files[3] \in DOMAIN media /\ ~media[M.video_files[3]].audio

\* the position of v in files
IndexOf(files, v) == CHOOSE i \in 1..Len(files) : files[i] = v

\* C10: in a batch with a sink, every event convert_single_file hands to its
\* callback reaches the sink as a 'converting' event tagged with the file's
\* index, the total and the file, and a source that would convert is still
\* converted (stated for a sink that does not raise).
C10_EventsForwarded ==
  (M.mode = "batch" /\ M.progress_callback = "sink" /\ ~M.sink_raises) =>
    /\ \A k \in At({"cb"}) :
         LET v == trace[Prev(k, {"csf_call"})].input_path IN
         /\ k + 1 <= Len(trace)
         /\ trace[k + 1] =
              [op |-> "sink",
               kw |-> [file_index |-> IndexOf(M.video_files, v),
                       total_files |-> Len(M.video_files),
                       current_file |-> v,
                       phase |-> "converting"] @@ trace[k].kw]
    /\ (JustReturned /\ Convertible(M.input_path)
          /\ DistinctOutputs(M.video_files)) => M.ret

\* C11: when the root directory does not exist or holds no file with a
\* supported extension, convert_batch returns (0, 0) in its next step: it
\* does not raise, opens no media handle, calls neither the transcoder nor
\* the caller's sink, and leaves the file system as it was.
C11_EmptyBatchReturnsZero ==
  [][ ( /\ M.pc = "batch_start"
        /\ \/ ~Exists(M.input_dir)
           \/ {v \in Walk(M.input_dir) : validate_file_extension(v)} = {} )
      => /\ th'[Main].pc = "done"
         /\ th'[Main].batch_ret = <<0, 0>>
         /\ UNCHANGED <<disk, dirs, clips, current_clip, trace>> ]_vars

\* a batch over an existing directory that holds only a text file has
\* returned (0, 0) without a handle or a transcoder call
C11_Witness ==
  /\ M.pc = "done" /\ M.mode = "batch" /\ M.batch_ret = <<0, 0>>
  /\ M.input_dir = R_DIR /\ DOMAIN disk = {F_C_TXT}
  /\ clips = <<>> /\ At({"open", "write"}) = {}

\* the path p with its last extension replaced by ext
WithExtension(p, ext) == SubSeq(p, 1, RFind(p, ".")) \o ext

\* the path v, which lies under the directory root, moved under the
\* directory out
ReRooted(v, root, out) == out \o SubSeq(v, Len(root) + 1, Len(v))

\* C12: the output path convert_batch hands to convert_single_file is, when
\* an output directory is given, the source path with the root directory
\* replaced by the output directory (the subdirectories between them kept)
\* and the extension replaced by the audio extension; when none is given, it
\* is the source path itself with the extension replaced, hence in the
\* source's own directory.
C12_BatchOutputPath ==
  (M.mode = "batch" /\ M.pc \in CsfPcs) =>
    /\ M.output_dir # <<>> =>
         M.output_path =
           WithExtension(ReRooted(M.input_path, M.input_dir, M.output_dir),
                         DefaultFormat)
    /\ M.output_dir = <<>> =>
         /\ M.output_path = WithExtension(M.input_path, DefaultFormat)
         /\ dirname(M.output_path) = dirname(M.input_path)

\* the transcoder is about to write o/s/d.wav for r/s/d.mov in a batch from r
\* to o
C12_Witness ==
  /\ M.mode = "batch" /\ M.pc = "csf_write"
  /\ M.input_dir = R_DIR /\ M.output_dir = O_DIR
  /\ M.input_path = F_D_MOV
  /\ M.output_path = <<"o", "/", "s", "/", "d", ".", "w", "a", "v">>

\* the supported extensions as the claim lists them
VideoExtensions ==
  { <<"m", "p", "4">>, <<"a", "v", "i">>, <<"m", "o", "v">>, <<"m", "k", "v">>,
    <<"f", "l", "v">>, <<"w", "m", "v">>, <<"m", "4", "v">>, <<"3", "g", "p">> }

\* the file name of p ends with '.' and the extension e in any letter case,
\* after at least one other character
EndsWithExtension(p, e) ==
  LET name == SubSeq(p, RFind(p, "/") + 1, Len(p))
      n    == Len(name)
  IN  /\ n > Len(e) + 1
      /\ name[n - Len(e)] = "."
      /\ Lower(SubSeq(name, n - Len(e) + 1, n)) = e

\* the discoveries made so far
Discoveries == {trace[k] : k \in At({"discover"})}

\* C13: get_video_files_from_directory returns exactly the files anywhere
\* under the directory whose extension is, in any letter case, one of mp4,
\* avi, mov, mkv, flv, wmv, m4v, 3gp, in strictly ascending order of the full
\* path (hence each once); it returns the empty list for a directory that
\* does not exist; and a second call on the unchanged tree returns the same
\* sequence.
C13_DiscoveryExactSortedStable ==
  /\ \A d \in Discoveries :
       LET r == d.video_files IN
       /\ {r[i] : i \in 1..Len(r)} =
            {p \in DOMAIN disk :
               /\ StartsWith(p, d.directory \o <<"/">>)
               /\ \E e \in VideoExtensions : EndsWithExtension(p, e)}
       /\ \A i, j \in 1..Len(r) : i < j => StrLess(r[i], r[j])
       /\ d.directory \notin dirs \cup DOMAIN disk => r = <<>>
  /\ \A d1, d2 \in Discoveries : d1.video_files = d2.video_files

\* both calls on r have returned [r/a.AVI, r/s/d.mov] for a tree that also
\* holds r/c.txt
C13_Witness ==
  /\ M.pc = "found_again" /\ M.input_dir = R_DIR
  /\ DOMAIN disk = {F_A_AVI, F_C_TXT, F_D_MOV}
  /\ M.video_files = <<F_A_AVI, F_D_MOV>>
  /\ Len(trace) = 2

\* the calls of generate_output_path made so far
Generations == {trace[k] : k \in At({"generate"})}

\* the base name of the path p without its last extension; a dot that starts
\* or ends the name starts no extension
BaseWithoutExtension(p) ==
  LET name == SubSeq(p, RFind(p, "/") + 1, Len(p))
      i    == RFind(name, ".")
  IN  IF 1 < i /\ i < Len(name) THEN SubSeq(name, 1, i - 1) ELSE name

\* the directory the path p lies in, '.' for a bare file name
DirectoryOf(p) ==
  IF RFind(p, "/") = 0 THEN <<".">> ELSE SubSeq(p, 1, RFind(p, "/") - 1)

\* C14: the path generate_output_path returns is determined by (source,
\* output_dir, format): it is the output directory if one is given and
\* otherwise the source's own directory, then '/', the source's base name
\* without its last extension, '.', and the format; so two calls with the
\* same arguments return the same path, whatever happened in between, and two
\* calls that differ only in the format return paths that differ only in the
\* extension.
C14_OutputPathFunction ==
  /\ \A g \in Generations :
       g.path = (IF g.output_dir # <<>> THEN g.output_dir
                 ELSE DirectoryOf(g.input_path))
                \o <<"/">> \o BaseWithoutExtension(g.input_path)
                \o <<".">> \o g.output_format
  /\ \A g, h \in Generations :
       (g.input_path = h.input_path /\ g.output_dir = h.output_dir) =>
         /\ g.output_format = h.output_format => g.path = h.path
         /\ SubSeq(g.path, 1, RFind(g.path, ".")) =
              SubSeq(h.path, 1, RFind(h.path, "."))
         /\ SubSeq(g.path, RFind(g.path, ".") + 1, Len(g.path)) = g.output_format

\* r/s/d.mov was given the path o/s/d.wav and then, with only the format
\* changed, o/s/d.flac; the first call made the directory o/s
C14_Witness ==
  /\ M.pc = "generated_again" /\ Len(trace) = 2
  /\ trace[1].input_path = F_D_MOV /\ trace[2].input_path = F_D_MOV
  /\ trace[1].output_dir = OS_DIR /\ trace[2].output_dir = OS_DIR
  /\ trace[1].path = <<"o", "/", "s", "/", "d", ".", "w", "a", "v">>
  /\ trace[2].path = <<"o", "/", "s", "/", "d", ".", "f", "l", "a", "c">>
  /\ OS_DIR \in dirs

\* the target format a caller configured, as its audio parameters carry it:
\* the command line and the GUI turn the format into the codec
\* (prepare_audio_parameters, get_audio_params)
ConfiguredFormat(audio_params) ==
  LET codec == IF "codec" \in DOMAIN audio_params
                 THEN audio_params["codec"] ELSE "pcm_s16le"
  IN  CASE codec = "pcm_s16le"  -> <<"w", "a", "v">>
        [] codec = "libmp3lame" -> <<"m", "p", "3">>
        [] codec = "flac"       -> <<"f", "l", "a", "c">>
        [] codec = "aac"        -> <<"a", "a", "c">>

\* C15: a conversion that returned True wrote to an output path whose
\* extension is the configured target format, when convert_single_file
\* derived the path itself and for every file of convert_batch.
C15_ExtensionIsConfiguredFormat ==
  \A k \in At({"csf_ret"}) :
    LET w == Prev(k, {"write"}) IN
    ( /\ trace[k].ret
      /\ M.mode = "batch" \/ trace[w].output_path # OUT_X )
    => SubSeq(trace[w].output_path,
              RFind(trace[w].output_path, ".") + 1,
              Len(trace[w].output_path))
         = ConfiguredFormat(M.audio_params)

\* the handles that are open
OpenHandles == {c \in 1..Len(clips) : clips[c].closes = 0}

\* C16: at most one media handle of the converter is open at any time, in
\* every interleaving of start_conversion, stop_conversion,
\* conversion_finished and the steps of the conversion threads.
C16_AtMostOneHandleOpen == Cardinality(OpenHandles) <= 1

\* C17: once stop_conversion has been requested while a thread runs
\* convert_batch, that batch starts convert_single_file for no further file:
\* a thread's batch that made a call before the request makes none after it.
C17_NoFileScheduledAfterStop ==
  \A w \in Workers :
    th[w].mode = "batch" =>
      \A k \in At({"stop"}) : \A i, j \in At({"csf_call"}) :
        (trace[i].by = w /\ trace[j].by = w /\ i < k) => j < k

\* the first position after k of an entry of thread t with an operation in ops
SuccBy(k, ops, t) ==
  LET I == {j \in At(ops) : j > k /\ trace[j].by = t}
  IN  IF I = {} THEN 0 ELSE CHOOSE j \in I : \A l \in I : j <= l

\* C18: when stop_conversion is called while current_clip is the handle a
\* conversion opened and has not released, that conversion returns False.
C18_StoppedFileFails ==
  \A s \in At({"stop"}) :
    trace[s].clip # 0 =>
      LET o == CHOOSE i \in At({"open"}) : trace[i].clip = trace[s].clip
          r == SuccBy(o, {"csf_ret"}, trace[o].by)
      IN  r # 0 => ~trace[r].ret

\* the converter has not been touched since the last stop_conversion was
\* called: the trace ends with that call and the close it made, if any
JustStopped ==
  LET n == Len(trace) IN
  /\ n > 0
  /\ \/ trace[n].op = "stop"
     \/ /\ n > 1 /\ trace[n - 1].op = "stop"
        /\ trace[n].op = "close" /\ trace[n].by = Main

\* the main thread is inside the converter's stop_conversion
InStop == M.pc \in {"stop_close", "stop_clear"}

\* C19: stop_conversion closes the handle that is the converter's current
\* one, and when it returns current_clip is None; called with no current
\* handle it returns at once and changes nothing of the converter, the file
\* system or the conversion threads; and a call that directly follows another
\* finds no handle, so that two calls in a row do what one does.
C19_StopReleasesAndIsIdempotent ==
  [][ /\ (M.pc = "stop_close" /\ th'[Main].pc = "stop_clear") =>
           /\ clips'[current_clip].closes = clips[current_clip].closes + 1
           /\ \A c \in 1..Len(clips) \ {current_clip} : clips'[c] = clips[c]
      /\ ((M.pc = "idle" \/ InStop) /\ th'[Main].pc = "stop_finished") =>
           current_clip' = 0
      /\ (M.pc = "idle" /\ th'[Main].pc = "stop_finished") =>
           /\ UNCHANGED <<clips, current_clip, disk, dirs, media, gui>>
           /\ \A w \in Workers : th'[w] = th[w]
      /\ (M.pc = "idle" /\ th'[Main].pc \in {"stop_close", "stop_finished"}
          /\ JustStopped) =>
           /\ th'[Main].pc = "stop_finished"
           /\ UNCHANGED <<clips, current_clip>> ]_vars

\* stop_conversion was called with r/a.mp4 open, closed it and cleared
\* current_clip; called again right away it found nothing to do, and has
\* returned
C19_Witness ==
  /\ M.pc = "idle" /\ ~gui.is_converting
  /\ Len(trace) = 5
  /\ trace[2].op = "open" /\ trace[3].op = "stop" /\ trace[3].clip = 1
  /\ trace[4].op = "close" /\ trace[4].by = Main
  /\ trace[5].op = "stop" /\ trace[5].clip = 0
  /\ current_clip = 0 /\ clips[1].closes = 1

\* the parameter set p is what the claim says of the caller's dictionary a:
\* the codec is the caller's if given and pcm_s16le if not; every other
\* supported key is in p with the caller's value if the caller set it and is
\* not in p otherwise; apart from logger there is no further key; and a
\* channel count of 1 or 2 adds '-ac' and the count to the caller's
\* ffmpeg_params
ParamsAsClaimed(a, p) ==
  LET ch == IF "channels" \in DOMAIN a THEN a["channels"] ELSE 0
      ff == IF "ffmpeg_params" \in DOMAIN a THEN a["ffmpeg_params"] ELSE <<>>
  IN  /\ p["codec"] = IF "codec" \in DOMAIN a THEN a["codec"] ELSE "pcm_s16le"
      /\ DOMAIN p \ {"logger"} =
           {"codec"} \cup (DOMAIN a \cap supported_params)
                     \cup (IF "channels" \in DOMAIN a THEN {"ffmpeg_params"} ELSE {})
      /\ \A key \in (DOMAIN a \cap supported_params) \ {"ffmpeg_params"} :
           p[key] = a[key]
      /\ ch = 1 => p["ffmpeg_params"] = ff \o <<"-ac", "1">>
      /\ ch = 2 => p["ffmpeg_params"] = ff \o <<"-ac", "2">>
      /\ ("ffmpeg_params" \in DOMAIN p /\ ch \notin {1, 2}) => p["ffmpeg_params"] = ff

\* C20: the parameters convert_single_file builds from the audio_params it
\* was called with are the default codec pcm_s16le overridden by the caller's
\* values of the supported keys, with the keys the caller did not set left
\* out and a channel count of 1 or 2 turned into '-ac', n in ffmpeg_params;
\* and these are the parameters the transcoder is called with.
C20_TranscoderParameters ==
  [][ /\ M.pc = "csf_params" =>
           ParamsAsClaimed(M.audio_params, th'[Main].default_params)
      /\ M.pc = "csf_write" =>
           trace'[Len(trace')].params = M.default_params ]_vars

\* the transcoder was called with the caller's codec libmp3lame, the channel
\* count 1 as '-ac', '1', and no sample rate or bit rate
C20_Witness ==
  /\ LastWrite # 0
  /\ DOMAIN M.audio_params = {"codec", "channels"}
  /\ trace[LastWrite].params =
       [codec |-> "libmp3lame", ffmpeg_params |-> <<"-ac", "1">>,
        logger |-> "bar"]

\* the source whose handle made the transcoder call at position k
SourceOfWrite(k) == clips[trace[k].clip].path

\* C21: in one convert_batch run no two distinct discovered files are given
\* the same output path, and so no two of them are transcoded to the same
\* destination.
C21_BatchOutputsDistinct ==
  (M.mode = "batch" /\ M.video_files # <<>>) =>
    /\ \A i, j \in 1..Len(M.video_files) :
         i # j => BatchOutputPath(M, M.video_files[i], dirs).path
                    # BatchOutputPath(M, M.video_files[j], dirs).path
    /\ \A j, k \in At({"write"}) :
         SourceOfWrite(j) # SourceOfWrite(k) =>
           trace[j].output_path # trace[k].output_path

\* C22: convert_single_file leaves the caller's audio_params as they were
\* passed, the ffmpeg_params list in it included, and every transcoder call
\* of one convert_batch run is made with the same parameters.
C22_AudioParamsUnchanged ==
  /\ \E a \in ParamChoices :
       /\ DOMAIN a = DOMAIN M.audio_params
       /\ \A key \in DOMAIN a : a[key] = M.audio_params[key]
  /\ M.mode = "batch" =>
       \A j, k \in At({"write"}) : trace[j].params = trace[k].params

\* the positions at which the sink received convert_single_file's
\* 'completed' event (convert_batch's own 'completed' carries no time)
CompletedAt ==
  {k \in At({"sink"}) : trace[k].kw.phase = "completed" /\ "t" \in DOMAIN trace[k].kw}

\* C23: whenever the sink (one that does not raise) received 'completed' from
\* convert_single_file, the call returns True.
C23_CompletedOnlyOnSuccess ==
  ~M.sink_raises =>
    \A k \in CompletedAt :
      Succ(k, {"csf_ret"}) # 0 => trace[Succ(k, {"csf_ret"})].ret

\* C23 as it holds: the sink receives 'completed' only after a transcoder
\* call that returned without raising; the call then returns True only if
\* the destination exists and is not empty, and, for a sink that does not
\* raise, exactly then.
C23_CompletedAfterTranscoder ==
  \A k \in CompletedAt :
    LET w == Prev(k, {"write", "csf_call"})
        r == Succ(k, {"csf_ret"})
    IN  /\ trace[w].op = "write"
        /\ MediaOf(trace[w].clip).write # "raises"
        /\ r # 0 =>
             /\ trace[r].ret => NonEmptyFile(trace[w].output_path)
             /\ ~M.sink_raises =>
                  (trace[r].ret <=> NonEmptyFile(trace[w].output_path))

\* the sink received 'completed' for a source whose transcoder call left an
\* empty destination, and the call has returned False
C23_Witness ==
  /\ M.pc = "done" /\ M.mode = "single" /\ M.cb = "sink" /\ ~M.sink_raises
  /\ ~M.ret
  /\ CompletedAt # {}
  /\ LastWrite # 0 /\ MediaOf(trace[LastWrite].clip).write = "empty"
  /\ disk[M.output_path] = 0

====
